---- MODULE Spec2Model ----
(***************************************************************************)
(* Two solver sessions of cpmpy: CPM_glasgowconstraintsolver (direct API   *)
(* lowering, "gcs") and CPM_minizinc (textual lowering, "mzn").  A session *)
(* is the binding cache _varmap, the tracked variables user_vars, the      *)
(* accumulated native model, the objective record and the results of the   *)
(* last solve.  The native solvers are modelled by the meaning of the      *)
(* instructions they are given.                                            *)
(***************************************************************************)
EXTENDS Integers, Sequences, FiniteSets, TLC

\* ------------------------------------------------------------------------
\* Bounds of the model
\* ------------------------------------------------------------------------
IntUb == 2          \* upper end of the integer variables' interval [0, IntUb]
MaxCalls == 2       \* solver_var, += and objective calls made by the user in one session
MaxEnums == 1       \* solveAll calls in one session
MaxEnumSolutions == 2   \* solveAll is called on programs with at most this many solutions
MaxLimit == 1       \* largest solution_limit passed to solveAll

\* ------------------------------------------------------------------------
\* Decision variables (cpmpy.expressions.variables).  A variable is known by
\* its name; names are sequences of characters.
\* ------------------------------------------------------------------------
BoolVar(n) == [tag |-> "var", kind |-> "bool", lb |-> 0, ub |-> 1, name |-> n]
IntVar(l, u, n) == [tag |-> "var", kind |-> "int", lb |-> l, ub |-> u, name |-> n]
NegBoolView(v) == [tag |-> "neg", kind |-> "bool", lb |-> 0, ub |-> 1, name |-> <<"~">> \o v.name]
Bv(view) == BoolVar(Tail(view.name))
Num(k) == [tag |-> "num", kind |-> "num", lb |-> k, ub |-> k, name |-> <<>>]
\* Python's True and False
PyBool(t) == [tag |-> "pybool", kind |-> "pybool", lb |-> IF t THEN 1 ELSE 0,
              ub |-> IF t THEN 1 ELSE 0, name |-> <<>>]

x == BoolVar(<<"x">>)
y == BoolVar(<<"y">>)
a == IntVar(0, IntUb, <<"v", "[", "0", "]">>)
b == IntVar(0, IntUb, <<"v", "[", "1", "]">>)
w == IntVar(0, 1, <<"v", "_", "0">>)

BaseVars == {x, y, a, b, w}

is_num(e) == e.tag = "num"
IsNumVarImpl(e) == e.tag \in {"var", "neg"}
IsBoolVarImpl(e) == e.tag \in {"var", "neg"} /\ e.kind = "bool"
IsNegBoolView(e) == e.tag = "neg"

\* ------------------------------------------------------------------------
\* Canonical constraints and numeric expressions (cpmpy.expressions.core)
\* ------------------------------------------------------------------------
Operator(n, args) == [tag |-> "op", name |-> n, args |-> args]
Comparison(n, l, r) == [tag |-> "cmp", name |-> n, args |-> <<l, r>>]
GlobalConstraint(n, args) == [tag |-> "glob", name |-> n, args |-> args]
\* wsum keeps its weights apart from its variables, as args[0] and args[1] do
WSum(ws, xs) == [tag |-> "wsum", name |-> "wsum", args |-> xs, weights |-> ws]

\* The constraints a user posts, by index
Catalogue ==
  << x,                                                   \* 1  literal
     NegBoolView(y),                                      \* 2  negated literal
     Operator("or", <<x, y>>),                            \* 3  Scenario A
     Comparison("==", a, Num(1)),                         \* 4  Scenario B
     Operator("->", <<x, Comparison("==", b, Num(2))>>),  \* 5  Scenario D
     GlobalConstraint("alldifferent", <<a, b>>),          \* 6  Scenario C
     Comparison(">", x, y),                                \* 7  test_copy cons1
     Comparison("==", Operator("sum", <<x, y>>), Num(1)), \* 8  test_copy cons2
     Operator("or", <<NegBoolView(x), y>>),               \* 9
     GlobalConstraint("allequal", <<a, b>>),              \* 10
     Comparison("==", a, w)                               \* 11
  >>

\* More canonical constraints, for the dispatch of _post_constraint alone
LoweringShapes ==
  << Operator("xor", <<x, y>>),                                        \* 12
     Comparison("!=", a, b),                                           \* 13
     Comparison("<=", a, b),                                           \* 14
     Comparison("<", a, Num(1)),                                       \* 15
     Comparison(">=", a, b),                                           \* 16
     Comparison(">", a, w),                                            \* 17
     Operator("->", <<x, y>>),                                         \* 18
     Operator("->", <<NegBoolView(x), y>>),                            \* 19
     Operator("->", <<x, Operator("and", <<y, NegBoolView(x)>>)>>),    \* 20
     Operator("->", <<x, Operator("or", <<x, y>>)>>),                  \* 21
     Operator("->", <<x, Operator("->", <<x, y>>)>>),                  \* 22
     Operator("->", <<x, Operator("xor", <<x, y>>)>>),                 \* 23
     Operator("->", <<x, Comparison("==", a, b)>>),                    \* 24
     Operator("->", <<x, Comparison("<=", a, b)>>),                    \* 25
     Operator("->", <<x, Comparison("<", a, Num(1))>>),                \* 26
     Operator("->", <<x, Comparison(">=", a, b)>>),                    \* 27
     Operator("->", <<x, Comparison(">", a, w)>>),                     \* 28
     Operator("->", <<x, Comparison("!=", a, b)>>),                    \* 29
     Operator("->", <<x, GlobalConstraint("alldifferent", <<a, b>>)>>),\* 30
     Operator("->", <<x, Operator("sub", <<a, b>>)>>),                 \* 31
     Operator("->", <<Comparison("==", a, Num(1)), y>>),               \* 32
     Operator("->", <<a, y>>),                                         \* 33
     Comparison("==", Operator("sum", <<x, y, w>>), a),                \* 34
     Comparison("==", Operator("sum", <<x, y, w>>), Num(2)),           \* 35
     Comparison("==", WSum(<<2, -1>>, <<x, w>>), a),                   \* 36
     Comparison("==", WSum(<<1, 2, 1>>, <<x, y, w>>), b)               \* 37
  >>

\* Every constraint a session may be given, by index
Shapes == Catalogue \o LoweringShapes

\* The objectives a user sets, by index
Objectives ==
  << a,                           \* a plain variable
     Operator("sum", <<a, b>>)    \* Scenario E
  >>

RECURSIVE SeqSum(_)
SeqSum(s) == IF s = <<>> THEN 0 ELSE Head(s) + SeqSum(Tail(s))

RECURSIVE Pow(_, _)
Pow(p, q) == IF q <= 0 THEN 1 ELSE p * Pow(p, q - 1)

Abs(p) == IF p < 0 THEN -p ELSE p
B2I(p) == IF p THEN 1 ELSE 0

CmpHolds(n, p, q) ==
  CASE n = "==" -> p = q
    [] n = "!=" -> p # q
    [] n = "<=" -> p <= q
    [] n = "<"  -> p < q
    [] n = ">=" -> p >= q
    [] n = ">"  -> p > q

\* Expression.value(): the value of an expression under the value slots;
\* Booleans are 0/1.  val maps each variable to a number.
RECURSIVE Value(_, _)
Value(e, val) ==
  LET arg(i) == Value(e.args[i], val)
      n == Len(e.args)
  IN CASE e.tag \in {"num", "pybool"} -> e.lb
       [] e.tag = "var" -> val[e]
       [] e.tag = "neg" -> 1 - val[Bv(e)]
       [] e.tag = "cmp" -> B2I(CmpHolds(e.name, arg(1), arg(2)))
       [] e.tag = "wsum" -> SeqSum([i \in 1..n |-> e.weights[i] * arg(i)])
       [] e.tag = "glob" /\ e.name = "alldifferent" ->
            B2I(\A i, j \in 1..n : i # j => arg(i) # arg(j))
       [] e.tag = "glob" /\ e.name = "allequal" ->
            B2I(\A i, j \in 1..n : arg(i) = arg(j))
       [] e.tag = "op" /\ e.name = "and" -> B2I(\A i \in 1..n : arg(i) # 0)
       [] e.tag = "op" /\ e.name = "or" -> B2I(\E i \in 1..n : arg(i) # 0)
       [] e.tag = "op" /\ e.name = "xor" -> SeqSum([i \in 1..n |-> arg(i)]) % 2
       [] e.tag = "op" /\ e.name = "->" -> B2I(arg(1) = 0 \/ arg(2) # 0)
       [] e.tag = "op" /\ e.name = "sum" -> SeqSum([i \in 1..n |-> arg(i)])
       [] e.tag = "op" /\ e.name = "sub" -> arg(1) - arg(2)
       [] e.tag = "op" /\ e.name = "mul" -> arg(1) * arg(2)
       [] e.tag = "op" /\ e.name = "abs" -> Abs(arg(1))

\* get_bounds: the interval of a numeric expression (used for auxiliaries)
RECURSIVE LowerBound(_)
LowerBound(e) ==
  IF e.tag \in {"num", "pybool", "var", "neg"} THEN e.lb
  ELSE SeqSum([i \in 1..Len(e.args) |-> LowerBound(e.args[i])])

RECURSIVE UpperBound(_)
UpperBound(e) ==
  IF e.tag \in {"num", "pybool", "var", "neg"} THEN e.ub
  ELSE SeqSum([i \in 1..Len(e.args) |-> UpperBound(e.args[i])])

\* get_variables: the decision variables of an expression, views unwrapped
RECURSIVE get_variables(_)
get_variables(e) ==
  CASE e.tag \in {"num", "pybool"} -> {}
    [] e.tag = "var" -> {e}
    [] e.tag = "neg" -> {Bv(e)}
    [] OTHER -> UNION {get_variables(e.args[i]) : i \in 1..Len(e.args)}

\* The atoms of an expression in the order a depth-first conversion meets them
RECURSIVE Atoms(_)
Atoms(e) ==
  IF e.tag \in {"num", "pybool", "var", "neg"} THEN <<e>>
  ELSE LET RECURSIVE Cat(_)
           Cat(i) == IF i > Len(e.args) THEN <<>> ELSE Atoms(e.args[i]) \o Cat(i + 1)
       IN Cat(1)

\* SolverInterface._solve_return
SolveReturn(exitstatus) == exitstatus \in {"FEASIBLE", "OPTIMAL"}


EmptyMap == [u \in {} |-> u]
None == <<>>
Some(v) == <<v>>

\* ------------------------------------------------------------------------
\* gcspy: the native API of the Glasgow Constraint Solver.  A handle is an
\* affine view coef * var + off of a native variable (var = 0: a constant).
\* ------------------------------------------------------------------------
NativeVar(id) == [var |-> id, coef |-> 1, off |-> 0]
create_integer_constant(k) == [var |-> 0, coef |-> 0, off |-> k]
negate(h) == [var |-> h.var, coef |-> -h.coef, off |-> -h.off]
add_constant(h, k) == [var |-> h.var, coef |-> h.coef, off |-> h.off + k]

NC(op, args, reif, flag, coefs, opcode) ==
  [op |-> op, args |-> args, reif |-> reif, flag |-> flag, coefs |-> coefs, opcode |-> opcode]

post_or(hs) == NC("or", hs, <<>>, FALSE, <<>>, "")
post_and(hs) == NC("and", hs, <<>>, FALSE, <<>>, "")
post_implies(hs) == NC("implies", hs, <<>>, FALSE, <<>>, "")
post_and_if(hs, r) == NC("and", hs, <<r>>, FALSE, <<>>, "")
post_or_if(hs, r) == NC("or", hs, <<r>>, FALSE, <<>>, "")
post_implies_if(hs, r) == NC("implies", hs, <<r>>, FALSE, <<>>, "")
post_xor_if(hs, r) == NC("xor", hs, <<r>>, FALSE, <<>>, "")
post_equals(p, q) == NC("equals", <<p, q>>, <<>>, FALSE, <<>>, "")
post_not_equals(p, q) == NC("not_equals", <<p, q>>, <<>>, FALSE, <<>>, "")
post_compare_less(p, q, or_equal) == NC("compare_less", <<p, q>>, <<>>, or_equal, <<>>, "")
post_equals_if(p, q, r) == NC("equals", <<p, q>>, <<r>>, FALSE, <<>>, "")
post_compare_less_if(p, q, r, or_equal) == NC("compare_less", <<p, q>>, <<r>>, or_equal, <<>>, "")
post_abs(p, q) == NC("abs", <<p, q>>, <<>>, FALSE, <<>>, "")
post_arithmetic(p, q, r, opcode) == NC("arithmetic", <<p, q, r>>, <<>>, FALSE, <<>>, opcode)
post_linear_equality(hs, coefs, k) == NC("linear_equality", hs, <<>>, FALSE, coefs \o <<k>>, "")
post_alldifferent(hs) == NC("alldifferent", hs, <<>>, FALSE, <<>>, "")

\* The value of a handle under an assignment of the native variables
HVal(h, asg) == h.coef * (IF h.var = 0 THEN 0 ELSE asg[h.var]) + h.off

\* The meaning of one posted native constraint
NativeBody(c, asg) ==
  LET v(i) == HVal(c.args[i], asg)
      n == Len(c.args)
  IN CASE c.op = "or" -> \E i \in 1..n : v(i) # 0
       [] c.op = "and" -> \A i \in 1..n : v(i) # 0
       [] c.op = "xor" -> SeqSum([i \in 1..n |-> v(i)]) % 2 = 1
       [] c.op = "implies" -> v(1) = 0 \/ v(2) # 0
       [] c.op = "equals" -> v(1) = v(2)
       [] c.op = "not_equals" -> v(1) # v(2)
       [] c.op = "compare_less" -> IF c.flag THEN v(1) <= v(2) ELSE v(1) < v(2)
       [] c.op = "abs" -> Abs(v(1)) = v(2)
       [] c.op = "arithmetic" /\ c.opcode = "sum" -> v(1) + v(2) = v(3)
       [] c.op = "arithmetic" /\ c.opcode = "mul" -> v(1) * v(2) = v(3)
       [] c.op = "arithmetic" /\ c.opcode = "pow" -> v(2) >= 0 /\ Pow(v(1), v(2)) = v(3)
       [] c.op = "linear_equality" ->
            SeqSum([i \in 1..n |-> c.coefs[i] * v(i)]) = c.coefs[n + 1]
       [] c.op = "alldifferent" -> \A i, j \in 1..n : i # j => v(i) # v(j)

NativeHolds(c, asg) ==
  IF c.reif = <<>> THEN NativeBody(c, asg)
  ELSE HVal(c.reif[1], asg) = 0 \/ NativeBody(c, asg)

\* All assignments of the native variables that satisfy the posted constraints
RECURSIVE Assignments(_)
Assignments(nvars) ==
  IF nvars = <<>> THEN {<<>>}
  ELSE {<<k>> \o t : k \in Head(nvars).lb..Head(nvars).ub, t \in Assignments(Tail(nvars))}

NativeSolutions(nvars, ncons) ==
  {asg \in Assignments(nvars) : \A i \in 1..Len(ncons) : NativeHolds(ncons[i], asg)}

\* With gcs.minimise / gcs.maximise the solver ends on a best solution
NativeBest(sols, obj) ==
  IF obj = None THEN sols
  ELSE LET h == obj[1].h
       IN IF obj[1].minimize
          THEN {s \in sols : \A t \in sols : HVal(h, s) <= HVal(h, t)}
          ELSE {s \in sols : \A t \in sols : HVal(h, s) >= HVal(h, t)}


\* ------------------------------------------------------------------------
\* CPM_glasgowconstraintsolver.  G is the part of the session that lowering
\* changes: the binding cache vm, the tracked variables uv, and the native
\* solver's variables nvars and constraints ncons.  err names the exception
\* that ended the call ("" when it returned).
\* ------------------------------------------------------------------------
GcsCreateVariable(G, v) ==
  LET id == Len(G.nvars) + 1
  IN [G EXCEPT !.nvars = Append(@, [lb |-> v.lb, ub |-> v.ub, name |-> v.name]),
               !.vm = (v :> NativeVar(id)) @@ @]

\* return self._varmap[cpm_var], line 129
GcsCached(G, v) == [G |-> G, h |-> G.vm[v], err |-> ""]

\* solver_var without the cache test of line 118
GcsSolverVarAlwaysCreates(G, v) == GcsCached(GcsCreateVariable(G, v), v)

\* solver_var of a variable that is not a view, lines 117-129
GcsSolverVarPlain(G, v) ==
  IF v \notin DOMAIN G.vm THEN GcsCached(GcsCreateVariable(G, v), v) ELSE GcsCached(G, v)

\* solver_var with not(x) = -x, the + 1 of line 115 left out
GcsSolverVarNoOffset(G, v) ==
  IF is_num(v)
  THEN [G |-> G, h |-> create_integer_constant(v.lb), err |-> ""]
  ELSE IF IsNegBoolView(v)
  THEN [GcsSolverVarPlain(G, Bv(v)) EXCEPT !.h = negate(@)]
  ELSE GcsSolverVarPlain(G, v)

GcsSolverVar(G, v) ==
  IF v.tag \notin {"num", "var", "neg"}
  THEN [G |-> G, h |-> create_integer_constant(0), err |-> "NotImplementedError"]
  ELSE IF is_num(v)
  THEN [G |-> G, h |-> create_integer_constant(v.lb), err |-> ""]
  ELSE IF IsNegBoolView(v)
  THEN [GcsSolverVarPlain(G, Bv(v)) EXCEPT !.h = add_constant(negate(@), 1)]
  ELSE GcsSolverVarPlain(G, v)

\* SolverInterface.solver_vars: solver_var over a list, left to right
RECURSIVE GcsSolverVars(_, _)
RECURSIVE GcsSolverVarsFrom(_, _)
GcsSolverVars(G, s) ==
  IF s = <<>> THEN [G |-> G, hs |-> <<>>, err |-> ""]
  ELSE GcsSolverVarsFrom(GcsSolverVar(G, Head(s)), Tail(s))

\* The rest of the list s once its head is bound with result r
GcsSolverVarsFrom(r, s) ==
  IF r.err # "" THEN [G |-> r.G, hs |-> <<>>, err |-> r.err]
  ELSE [GcsSolverVars(r.G, s) EXCEPT !.hs = <<r.h>> \o @]

\* GlobalConstraint.decompose
HasDecomposition(e) == e.tag = "glob" /\ e.name = "allequal"
Decompose(e) == [i \in 1..(Len(e.args) - 1) |-> Comparison("==", e.args[i], e.args[i + 1])]

Ones(n) == [i \in 1..n |-> 1]

\* The native constraint of the call self.gcs.<fn>(*hs, ...); reif is the
\* reification handle and arg the or_equal flag, the opcode or the coefficients
NativeCall(fn, hs, reif, arg) ==
  CASE fn = "post_or" -> post_or(hs)
    [] fn = "post_and" -> post_and(hs)
    [] fn = "post_implies" -> post_implies(hs)
    [] fn = "post_and_if" -> post_and_if(hs, reif)
    [] fn = "post_or_if" -> post_or_if(hs, reif)
    [] fn = "post_implies_if" -> post_implies_if(hs, reif)
    [] fn = "post_xor_if" -> post_xor_if(hs, reif)
    [] fn = "post_equals" -> post_equals(hs[1], hs[2])
    [] fn = "post_not_equals" -> post_not_equals(hs[1], hs[2])
    [] fn = "post_compare_less" -> post_compare_less(hs[1], hs[2], arg)
    [] fn = "post_equals_if" -> post_equals_if(hs[1], hs[2], reif)
    [] fn = "post_compare_less_if" -> post_compare_less_if(hs[1], hs[2], reif, arg)
    [] fn = "post_abs" -> post_abs(hs[1], hs[2])
    [] fn = "post_arithmetic" -> post_arithmetic(hs[1], hs[2], hs[3], arg)
    [] fn = "post_linear_equality" -> post_linear_equality(hs, arg, 0)
    [] fn = "post_alldifferent" -> post_alldifferent(hs)

\* return self.gcs.<fn>(*self.solver_vars(...), ...): r is the result of
\* solver_vars; the constraint is posted unless solver_vars raised
GcsEmit(r, fn, reif, arg) ==
  IF r.err # "" THEN [G |-> r.G, err |-> r.err]
  ELSE [G |-> [r.G EXCEPT !.ncons = Append(@, NativeCall(fn, r.hs, reif, arg))], err |-> ""]

\* The i-th handle left as it is
GcsNegateSkipped(r, i) == r

\* self.gcs.negate applied to the i-th handle
GcsNegateAt(r, i) == IF r.err # "" THEN r ELSE [r EXCEPT !.hs[i] = negate(@)]

GcsRaise(G, kind) == [G |-> G, err |-> kind]

\* A statement that does not return is followed by the raise of line 303
GcsThenRaise(p, kind) == [G |-> p.G, err |-> IF p.err # "" THEN p.err ELSE kind]

\* The consequent of bv -> ..., lines 218-251; rv is the result of
\* solver_var(bool_lhs), its handle the reification variable
GcsPostConsequent(rv, bool_lhs, bool_expr) ==
  LET lhs == bool_expr.args[1]
      rhs == bool_expr.args[2]
  IN IF IsBoolVarImpl(bool_expr)
     THEN GcsEmit(GcsSolverVars(rv.G, <<bool_lhs, bool_expr>>), "post_implies", None, None)
     ELSE IF bool_expr.tag = "op"
     THEN CASE bool_expr.name = "and" ->
                 GcsEmit(GcsSolverVars(rv.G, bool_expr.args), "post_and_if", rv.h, None)
            [] bool_expr.name = "or" ->
                 GcsEmit(GcsSolverVars(rv.G, bool_expr.args), "post_or_if", rv.h, None)
            [] bool_expr.name = "->" ->
                 GcsEmit(GcsSolverVars(rv.G, bool_expr.args), "post_implies_if", rv.h, None)
            [] bool_expr.name = "xor" ->
                 GcsEmit(GcsSolverVars(rv.G, bool_expr.args), "post_xor_if", rv.h, None)
            [] OTHER -> GcsRaise(rv.G, "NotImplementedError")
     ELSE IF bool_expr.tag = "cmp"
     THEN CASE bool_expr.name = "==" ->
                 GcsEmit(GcsSolverVars(rv.G, <<lhs, rhs>>), "post_equals_if", rv.h, None)
            [] bool_expr.name = "<=" ->
                 GcsEmit(GcsSolverVars(rv.G, <<lhs, rhs>>), "post_compare_less_if", rv.h, TRUE)
            [] bool_expr.name = "<" ->
                 GcsEmit(GcsSolverVars(rv.G, <<lhs, rhs>>), "post_compare_less_if", rv.h, FALSE)
            [] bool_expr.name = ">=" ->
                 GcsEmit(GcsSolverVars(rv.G, <<rhs, lhs>>), "post_compare_less_if", rv.h, TRUE)
            [] bool_expr.name = ">" ->
                 GcsEmit(GcsSolverVars(rv.G, <<rhs, lhs>>), "post_compare_less_if", rv.h, FALSE)
            [] OTHER -> GcsRaise(rv.G, "NotImplementedError")
     ELSE GcsRaise(rv.G, "NotImplementedError")

\* bv -> ... reified by the negation of the handle of bv
GcsPostReifiedNegated(G, bool_lhs, bool_expr) ==
  GcsPostConsequent([GcsSolverVar(G, bool_lhs) EXCEPT !.h = negate(@)], bool_lhs, bool_expr)

\* bv -> ..., lines 213-251
GcsPostReified(G, bool_lhs, bool_expr) ==
  GcsPostConsequent(GcsSolverVar(G, bool_lhs), bool_lhs, bool_expr)

\* A Comparison whose left side is a variable, lines 257-272.  A variable
\* has no args, so every operator but == stops at lhs.args.
GcsPostVarComparison(G, e) ==
  LET lhs == e.args[1]
      rhs == e.args[2]
  IN IF ~(IsNumVarImpl(rhs) \/ is_num(rhs)) THEN GcsRaise(G, "AssertionError")
     ELSE IF e.name = "=="
     THEN GcsEmit(GcsSolverVars(G, <<lhs, rhs>>), "post_equals", None, None)
     ELSE IF e.name \in {"!=", "<=", "<", ">=", ">"} THEN GcsRaise(G, "AttributeError")
     ELSE GcsRaise(G, "NotImplementedError")

\* lhs == rhs with a structured left side, lines 273-293
GcsPostNumExprEquality(G, e) ==
  LET lhs == e.args[1]
      rhs == e.args[2]
      n == Len(lhs.args)
  IN CASE lhs.name = "abs" ->
            GcsEmit(GcsSolverVars(G, lhs.args \o <<rhs>>), "post_abs", None, None)
       [] lhs.name \in {"mul", "div", "pow", "mod"} ->
            GcsEmit(GcsSolverVars(G, lhs.args \o <<rhs>>), "post_arithmetic", None, lhs.name)
       [] lhs.name = "sub" ->
            GcsEmit(GcsNegateAt(GcsSolverVars(G, lhs.args \o <<rhs>>), 2),
                    "post_arithmetic", None, "sum")
       [] lhs.name = "sum" /\ n = 2 ->
            GcsEmit(GcsSolverVars(G, lhs.args \o <<rhs>>), "post_arithmetic", None, "sum")
       [] lhs.name = "sum" /\ n > 2 ->
            GcsEmit(GcsNegateAt(GcsSolverVars(G, lhs.args \o <<rhs>>), n + 1),
                    "post_linear_equality", None, Ones(n + 1))
       [] lhs.name = "wsum" ->
            GcsEmit(GcsNegateAt(GcsSolverVars(G, lhs.args \o <<rhs>>), n + 1),
                    "post_linear_equality", None, lhs.weights \o <<1>>)
       [] OTHER -> GcsRaise(G, "NotImplementedError")

RECURSIVE GcsPostConstraint(_, _)
RECURSIVE GcsPostAll(_, _)
RECURSIVE GcsPostRest(_, _)
RECURSIVE GcsAdd(_, _)

\* _post_constraint
GcsPostConstraint(G, e) ==
  IF IsBoolVarImpl(e)
  THEN GcsThenRaise(GcsEmit(GcsSolverVars(G, <<e>>), "post_or", None, None),
                    "NotImplementedError")
  ELSE IF e.tag = "op"
  THEN IF e.name = "and" THEN GcsEmit(GcsSolverVars(G, e.args), "post_and", None, None)
       ELSE IF e.name = "or" THEN GcsEmit(GcsSolverVars(G, e.args), "post_or", None, None)
       ELSE IF e.name = "->"
       THEN IF ~IsBoolVarImpl(e.args[1]) THEN GcsRaise(G, "AssertionError")
            ELSE GcsPostReified(G, e.args[1], e.args[2])
       ELSE GcsRaise(G, "NotImplementedError")
  ELSE IF e.tag = "cmp"
  THEN IF IsNumVarImpl(e.args[1]) THEN GcsPostVarComparison(G, e)
       ELSE IF e.name = "==" THEN GcsPostNumExprEquality(G, e)
       ELSE GcsRaise(G, "NotImplementedError")
  ELSE IF e.name = "alldifferent"
  THEN GcsEmit(GcsSolverVars(G, e.args), "post_alldifferent", None, None)
  ELSE IF HasDecomposition(e) THEN GcsAdd(G, Decompose(e))
  ELSE GcsRaise(G, "NotImplementedError")

\* for con in cpm_cons: self._post_constraint(con)
GcsPostAll(G, cons) ==
  IF cons = <<>> THEN [G |-> G, err |-> ""]
  ELSE GcsPostRest(GcsPostConstraint(G, Head(cons)), cons)

\* The loop after the head of cons was posted with result r
GcsPostRest(r, cons) == IF r.err # "" THEN r ELSE GcsPostAll(r.G, Tail(cons))

\* __add__ on a list of canonical constraints; flatten_constraint,
\* reify_rewrite, only_numexpr_equality and only_bv_implies leave canonical
\* constraints as they are
GcsAdd(G, cons) ==
  GcsPostAll([G EXCEPT !.uv = @ \cup UNION {get_variables(cons[i]) : i \in 1..Len(cons)}],
             cons)

\* get_or_make_var: a fresh integer variable IV<n> over the bounds of expr
AuxVar(n, expr) == IntVar(LowerBound(expr), UpperBound(expr), <<"I", "V", ToString(n)>>)

\* obj = self.solver_var(...) at the end of _make_numexpr; r is its result
GcsObjectiveOf(r, aux) ==
  [G |-> r.G, obj |-> IF r.err = "" THEN Some(r.h) ELSE None, err |-> r.err, aux |-> aux]

\* _make_numexpr after self += obj_cons, whose result is p
GcsObjectiveAux(p, obj_var) ==
  IF p.err # "" THEN [G |-> p.G, obj |-> None, err |-> p.err, aux |-> {obj_var}]
  ELSE GcsObjectiveOf(GcsSolverVar(p.G, obj_var), {obj_var})

\* objective up to the native minimise/maximise call: flatten_objective
\* leaves a flat objective as it is; _make_numexpr binds a variable directly
\* and gives any other expression an auxiliary variable with its defining
\* constraint.  obj is the handle that becomes objective_var.
GcsObjective(G, expr, n) ==
  IF IsNumVarImpl(expr)
  THEN GcsObjectiveOf(GcsSolverVar([G EXCEPT !.uv = @ \cup get_variables(expr)], expr), {})
  ELSE GcsObjectiveAux(GcsAdd([G EXCEPT !.uv = @ \cup get_variables(expr)],
                              <<Comparison("==", expr, AuxVar(n, expr))>>),
                       AuxVar(n, expr))


\* ------------------------------------------------------------------------
\* CPM_minizinc.  The generated program is a sequence of lines; the text of
\* an expression is kept as the tree of its tokens: identifiers, literals,
\* parentheses, infix operators and calls, as _convert_expression writes them.
\* ------------------------------------------------------------------------
Node(m, s, k) == [m |-> m, s |-> s, k |-> k]
NoText == Node("", <<>>, <<>>)
Id(name) == Node("id", name, <<>>)              \* name
Lit(t) == Node("lit", <<t>>, <<>>)              \* true, false, 3
Not(n) == Node("not", <<>>, <<n>>)              \* "not " + n
Paren(n) == Node("paren", <<>>, <<n>>)          \* "(" + n + ")"
Infix(op, l, r) == Node("infix", <<op>>, <<l, r>>)  \* "{} {} {}"
Times(l, r) == Node("times", <<>>, <<l, r>>)    \* "{}*{}"
CallList(f, args) == Node("calllist", <<f>>, args)  \* "{}([{}])"
Call(f, args) == Node("call", <<f>>, args)      \* "{}({})"

Line(kind, type, lb, ub, name, dir, expr) ==
  [kind |-> kind, type |-> type, lb |-> lb, ub |-> ub, name |-> name, dir |-> dir, expr |-> expr]

Preamble == Line("preamble", "", 0, 0, <<>>, "", NoText)
VarBool(n) == Line("var", "bool", 0, 1, n, "", NoText)
VarInt(l, u, n) == Line("var", "int", l, u, n, "", NoText)
ConstraintLine(txt) == Line("constraint", "", 0, 0, <<>>, "", txt)
SolveSatisfy == Line("solve", "", 0, 0, <<>>, "satisfy", NoText)
SolveOptimize(minimize, txt) ==
  Line("solve", "", 0, 0, <<>>, IF minimize THEN "minimize" ELSE "maximize", txt)

\* The character replacements of line 288
SanitizeChar(c) ==
  IF c \in {",", ".", " ", "["} THEN <<"_">>
  ELSE IF c = "]" THEN <<>>
  ELSE <<c>>

RECURSIVE Sanitize(_)
Sanitize(varname) ==
  IF varname = <<>> THEN <<>>
  ELSE SanitizeChar(Head(varname)) \o Sanitize(Tail(varname))

\* M is the part of the session that lowering changes: the binding cache vm,
\* the tracked variables uv and the program text model.
MznDeclare(M, v) ==
  LET mzn_var == Sanitize(v.name)
      decl == IF v.kind = "bool" THEN VarBool(mzn_var) ELSE VarInt(v.lb, v.ub, mzn_var)
  IN [M EXCEPT !.model = Append(@, decl), !.vm = (v :> mzn_var) @@ @]

\* solver_var; a number is its own text
MznSolverVar(M, v) ==
  IF is_num(v) THEN [M |-> M, h |-> <<ToString(v.lb)>>]
  ELSE IF v \notin DOMAIN M.vm
  THEN LET M1 == MznDeclare(M, v)
       IN [M |-> M1, h |-> M1.vm[v]]
  ELSE [M |-> M, h |-> M.vm[v]]

\* The solver_var calls of a conversion, in order: a view binds its variable
RECURSIVE MznBindAtoms(_, _)
MznBindAtoms(M, atoms) ==
  IF atoms = <<>> THEN M
  ELSE LET e == Head(atoms)
           M1 == IF e.tag = "pybool" THEN M
                 ELSE IF IsNegBoolView(e) THEN MznSolverVar(M, Bv(e)).M
                 ELSE MznSolverVar(M, e).M
       IN MznBindAtoms(M1, Tail(atoms))

printmap(name) ==
  CASE name = "and" -> "/\\"
    [] name = "or" -> "\\/"
    [] name = "sum" -> "+"
    [] name = "sub" -> "-"
    [] name = "mul" -> "*"
    [] name = "pow" -> "^"
    [] OTHER -> name

printnary(name) ==
  CASE name = "and" -> "forall"
    [] name = "or" -> "exists"
    [] name = "sum" -> "sum"

print_map(name) ==
  CASE name = "allequal" -> "all_equal"
    [] name = "xor" -> "xorall"
    [] OTHER -> name

IsExpression(e) == e.tag \notin {"num", "pybool"}

\* _convert_expression, reading the handles of the variables it has bound
RECURSIVE ConvertExpression(_, _)
ConvertExpression(expr, vm) ==
  LET args_str == [i \in 1..Len(expr.args) |-> ConvertExpression(expr.args[i], vm)]
      wrapped == [i \in 1..Len(expr.args) |->
                    IF IsExpression(expr.args[i]) THEN Paren(args_str[i]) ELSE args_str[i]]
  IN CASE expr.tag = "pybool" -> Lit(IF expr.lb = 1 THEN "true" ELSE "false")
       [] expr.tag = "num" -> Lit(ToString(expr.lb))
       [] expr.tag = "neg" -> Not(Id(vm[Bv(expr)]))
       [] expr.tag = "var" -> Id(vm[expr])
       [] expr.tag = "cmp" -> Infix(expr.name, wrapped[1], wrapped[2])
       [] expr.tag = "wsum" ->
            CallList("sum", [i \in 1..Len(expr.args) |->
                               Times(Lit(ToString(expr.weights[i])), args_str[i])])
       [] expr.tag = "op" ->
            IF Len(expr.args) = 2 THEN Infix(printmap(expr.name), wrapped[1], wrapped[2])
            ELSE IF expr.name \in {"and", "or", "sum"}
            THEN CallList(printnary(expr.name), args_str)
            ELSE Call(printmap(expr.name), args_str)
       [] OTHER -> CallList(print_map(expr.name), args_str)

\* _post_constraint
MznPostConstraint(M, cpm_expr) ==
  LET M1 == MznBindAtoms(M, Atoms(cpm_expr))
  IN [M1 EXCEPT !.model = Append(@, ConstraintLine(ConvertExpression(cpm_expr, M1.vm)))]

\* __add__ of one constraint
MznAdd(M, cpm_con) ==
  MznPostConstraint([M EXCEPT !.uv = @ \cup get_variables(cpm_con)], cpm_con)

\* objective that takes every objective as one to minimize
MznObjectiveMinimizeOnly(M, expr, minimize) ==
  LET M1 == MznBindAtoms([M EXCEPT !.uv = @ \cup get_variables(expr)], Atoms(expr))
  IN [M |-> M1, txt_solve |-> SolveOptimize(TRUE, ConvertExpression(expr, M1.vm))]

\* objective: the session after it, and the solve statement it stores
MznObjective(M, expr, minimize) ==
  LET M1 == MznBindAtoms([M EXCEPT !.uv = @ \cup get_variables(expr)], Atoms(expr))
  IN [M |-> M1, txt_solve |-> SolveOptimize(minimize, ConvertExpression(expr, M1.vm))]

\* _pre_solve that forgets the stored solve statement
PreSolveSatisfy(model, txt_solve) == Append(model, SolveSatisfy)

\* _pre_solve: the program handed to minizinc.Instance
PreSolve(model, txt_solve) == Append(model, txt_solve)

\* _post_solve that keeps UNKNOWN apart
PostSolveStatusUnknown(mzn_status) ==
  CASE mzn_status = "SATISFIED" -> "FEASIBLE"
    [] mzn_status = "ALL_SOLUTIONS" -> "FEASIBLE"
    [] mzn_status = "OPTIMAL_SOLUTION" -> "OPTIMAL"
    [] mzn_status = "UNSATISFIABLE" -> "UNSATISFIABLE"
    [] mzn_status = "ERROR" -> "ERROR"
    [] mzn_status = "UNKNOWN" -> "UNKNOWN"
    [] OTHER -> "NOT_RUN"

\* _post_solve: the exit status for a native status, and whether it raises
PostSolveStatus(mzn_status) ==
  CASE mzn_status = "SATISFIED" -> "FEASIBLE"
    [] mzn_status = "ALL_SOLUTIONS" -> "FEASIBLE"
    [] mzn_status = "OPTIMAL_SOLUTION" -> "OPTIMAL"
    [] mzn_status = "UNSATISFIABLE" -> "UNSATISFIABLE"
    [] mzn_status = "ERROR" -> "ERROR"
    [] mzn_status = "UNKNOWN" -> "ERROR"
    [] OTHER -> "NOT_RUN"

PostSolveRaises(mzn_status) ==
  mzn_status \notin {"SATISFIED", "ALL_SOLUTIONS", "OPTIMAL_SOLUTION", "UNSATISFIABLE", "UNKNOWN"}

\* The stop test of line 260
LimitReached(solution_count, solution_limit) == Some(solution_count) = solution_limit

\* The nogood of line 264: Python's any() over the list of v != v.value()
\* expressions is True when the list is not empty, False when it is
NoGood(uv) == PyBool(uv # {})


\* ------------------------------------------------------------------------
\* MiniZinc: what the compiler and solver make of a generated program
\* ------------------------------------------------------------------------
Letters == {"a", "b", "c", "d", "e", "f", "g", "h", "i", "j", "k", "l", "m",
            "n", "o", "p", "q", "r", "s", "t", "u", "v", "w", "x", "y", "z",
            "A", "B", "C", "D", "E", "F", "G", "H", "I", "J", "K", "L", "M",
            "N", "O", "P", "Q", "R", "S", "T", "U", "V", "W", "X", "Y", "Z"}
Digits == {"0", "1", "2", "3", "4", "5", "6", "7", "8", "9"}

\* An identifier is a letter followed by letters, digits and underscores
LegalIdentifier(name) ==
  /\ name # <<>>
  /\ name[1] \in Letters
  /\ \A i \in 1..Len(name) : name[i] \in Letters \cup Digits \cup {"_"}

IsVarLine(l) == l.kind = "var"
IsConstraintLine(l) == l.kind = "constraint"
IsSolveLine(l) == l.kind = "solve"

Declarations(program) == SelectSeq(program, IsVarLine)
DeclaredNames(program) == {Declarations(program)[i].name : i \in 1..Len(Declarations(program))}

InfixOps == {"/\\", "\\/", "->", "xor", "+", "-", "*", "==", "!=", "<=", "<", ">=", ">"}
ListCalls == {"forall", "exists", "sum", "alldifferent", "all_equal", "xorall"}

RECURSIVE WellFormed(_, _)
WellFormed(n, names) ==
  /\ n.m \in {"id", "lit", "not", "paren", "infix", "times", "calllist", "call"}
  /\ n.m = "id" => n.s \in names
  /\ n.m = "infix" => n.s[1] \in InfixOps
  /\ n.m = "calllist" => n.s[1] \in ListCalls
  /\ n.m = "call" => n.s[1] = "abs" /\ Len(n.k) = 1
  /\ \A i \in 1..Len(n.k) : WellFormed(n.k[i], names)

\* The program compiles: every identifier is legal and declared once, every
\* expression is well formed, and the one solve item comes last
Compiles(program) ==
  LET decls == Declarations(program)
      names == DeclaredNames(program)
  IN /\ \A i \in 1..Len(decls) : LegalIdentifier(decls[i].name)
     /\ \A i, j \in 1..Len(decls) : i # j => decls[i].name # decls[j].name
     /\ \A i \in 1..Len(program) :
          program[i].expr # NoText => WellFormed(program[i].expr, names)
     /\ Len(SelectSeq(program, IsSolveLine)) = 1

LitValue(t) ==
  CASE t = "true" -> 1
    [] t = "false" -> 0
    [] OTHER -> CHOOSE k \in (-9)..99 : ToString(k) = t

RECURSIVE Eval(_, _)
Eval(n, env) ==
  LET v(i) == Eval(n.k[i], env)
      c == Len(n.k)
      op == n.s[1]
  IN CASE n.m = "id" -> env[n.s]
       [] n.m = "lit" -> LitValue(n.s[1])
       [] n.m = "not" -> 1 - v(1)
       [] n.m = "paren" -> v(1)
       [] n.m = "times" -> v(1) * v(2)
       [] n.m = "call" -> Abs(v(1))
       [] n.m = "calllist" /\ op = "forall" -> B2I(\A i \in 1..c : v(i) # 0)
       [] n.m = "calllist" /\ op = "exists" -> B2I(\E i \in 1..c : v(i) # 0)
       [] n.m = "calllist" /\ op = "sum" -> SeqSum([i \in 1..c |-> v(i)])
       [] n.m = "calllist" /\ op = "xorall" -> SeqSum([i \in 1..c |-> v(i)]) % 2
       [] n.m = "calllist" /\ op = "alldifferent" ->
            B2I(\A i, j \in 1..c : i # j => v(i) # v(j))
       [] n.m = "calllist" /\ op = "all_equal" -> B2I(\A i, j \in 1..c : v(i) = v(j))
       [] n.m = "infix" /\ op = "/\\" -> B2I(v(1) # 0 /\ v(2) # 0)
       [] n.m = "infix" /\ op = "\\/" -> B2I(v(1) # 0 \/ v(2) # 0)
       [] n.m = "infix" /\ op = "->" -> B2I(v(1) = 0 \/ v(2) # 0)
       [] n.m = "infix" /\ op = "xor" -> (v(1) + v(2)) % 2
       [] n.m = "infix" /\ op = "+" -> v(1) + v(2)
       [] n.m = "infix" /\ op = "-" -> v(1) - v(2)
       [] n.m = "infix" /\ op = "*" -> v(1) * v(2)
       [] n.m = "infix" -> B2I(CmpHolds(op, v(1), v(2)))

\* All assignments of the declared identifiers
RECURSIVE Envs(_)
Envs(decls) ==
  IF decls = <<>> THEN {EmptyMap}
  ELSE {(Head(decls).name :> k) @@ t :
          k \in Head(decls).lb..Head(decls).ub, t \in Envs(Tail(decls))}

\* The solutions of a program that compiles
MznSolutions(program) ==
  {env \in Envs(Declarations(program)) :
     \A i \in 1..Len(program) :
       IsConstraintLine(program[i]) => Eval(program[i].expr, env) # 0}

SolveItem(program) == program[Len(program)]
IsOptimisation(program) == SolveItem(program).dir # "satisfy"

\* The objective of a solution; smaller is better when minimizing
Objective(program, env) == Eval(SolveItem(program).expr, env)
Better(program, e1, e2) ==
  IF SolveItem(program).dir = "minimize"
  THEN Objective(program, e1) < Objective(program, e2)
  ELSE Objective(program, e1) > Objective(program, e2)
IsOptimal(program, env, sols) == \A t \in sols : ~Better(program, t, env)


\* ------------------------------------------------------------------------
\* The session
\* ------------------------------------------------------------------------
VARIABLES
  backend,          \* "gcs" or "mzn": the class of this session
  varmap,           \* _varmap: the binding cache
  user_vars,        \* user_vars: the tracked variables
  value,            \* _value of every variable: None or Some(k)
  nvars,            \* gcs: the native variables created, in order
  ncons,            \* gcs: the native constraints posted, in order
  gcs_obj,          \* gcs: the objective given to minimise / maximise
  has_objective,    \* gcs: has_objective
  objective_var,    \* gcs: objective_var
  mzn_model,        \* mzn: the lines added to mzn_model
  mzn_txt_solve,    \* mzn: mzn_txt_solve
  cpm_status,       \* cpm_status.exitstatus
  objective_value,  \* objective_value_
  naux,             \* the counter that names auxiliary variables
  calls,            \* the solver_var, += and objective calls made so far
  objcalls,         \* the objective calls made so far: index and direction
  posted,           \* the constraints the user posted, and whether += returned
  ret,              \* the last call: its name, arguments and outcome
  submitted,        \* mzn: the program last handed to minizinc.Instance
  pc,               \* "idle", or the position inside _solveAll
  nenums,           \* the solveAll calls made so far
  en                \* _solveAll: its arguments and locals while it runs

vars == <<backend, varmap, user_vars, value, nvars, ncons, gcs_obj, has_objective,
          objective_var, mzn_model, mzn_txt_solve, cpm_status, objective_value, naux,
          calls, objcalls, posted, ret, submitted, pc, nenums, en>>

gcsvars == <<nvars, ncons, gcs_obj, has_objective, objective_var>>
mznvars == <<mzn_model, mzn_txt_solve, submitted, pc, nenums, en>>

\* The variables and views a user may hand to solver_var directly
BindTargets == {x, w, NegBoolView(x)}

\* shown lists the assignments of the tracked variables that solveAll displayed
Ret(op, raised, v, h, ok, n, native, tl) ==
  [op |-> op, raised |-> raised, v |-> v, h |-> h, ok |-> ok, n |-> n,
   native |-> native, tl |-> tl, shown |-> <<>>, display |-> FALSE, limit |-> None,
   nsols |-> 0, status |-> ""]

NoEnum == [inst |-> <<>>, sols |-> {}, display |-> FALSE, limit |-> None, count |-> 0,
           yielded |-> {}, last |-> None]

Init ==
  /\ backend \in {"gcs", "mzn"}
  /\ varmap = EmptyMap
  /\ user_vars = {}
  /\ value = [v \in BaseVars |-> None]
  /\ nvars = <<>>
  /\ ncons = <<>>
  /\ gcs_obj = None
  /\ has_objective = FALSE
  /\ objective_var = None
  /\ mzn_model = IF backend = "mzn" THEN <<Preamble>> ELSE <<>>
  /\ mzn_txt_solve = SolveSatisfy
  /\ cpm_status = "NOT_RUN"
  /\ objective_value = None
  /\ naux = 0
  /\ calls = 0
  /\ objcalls = <<>>
  /\ posted = <<>>
  /\ ret = Ret("init", "", <<>>, <<>>, FALSE, 0, FALSE, FALSE)
  /\ submitted = <<>>
  /\ pc = "idle"
  /\ nenums = 0
  /\ en = NoEnum

Orders(S) ==
  {p \in [1..Cardinality(S) -> S] : \A i, j \in 1..Cardinality(S) : i # j => p[i] # p[j]}

\* ---- CPM_glasgowconstraintsolver ----
GcsSession == [vm |-> varmap, uv |-> user_vars, nvars |-> nvars, ncons |-> ncons]

SetG(G1) ==
  /\ varmap' = G1.vm
  /\ user_vars' = G1.uv
  /\ nvars' = G1.nvars
  /\ ncons' = G1.ncons

\* solver_var(v)
GcsBind(v) ==
  /\ backend = "gcs" /\ calls < MaxCalls
  /\ \E r \in {GcsSolverVar(GcsSession, v)} :
       /\ SetG(r.G)
       /\ ret' = Ret("solver_var", r.err, <<v>>, <<r.h>>, FALSE, 0, FALSE, FALSE)
  /\ calls' = calls + 1
  /\ UNCHANGED <<backend, value, gcs_obj, has_objective, objective_var, cpm_status,
                 objective_value, naux, objcalls, posted, mznvars>>

\* self += Shapes[i]
GcsPost(i) ==
  /\ backend = "gcs" /\ calls < MaxCalls
  /\ \E r \in {GcsAdd(GcsSession, <<Shapes[i]>>)} :
       /\ SetG(r.G)
       /\ posted' = Append(posted, [i |-> i, ok |-> r.err = ""])
       /\ ret' = Ret("add", r.err, <<>>, <<>>, FALSE, 0, FALSE, FALSE)
  /\ calls' = calls + 1
  /\ UNCHANGED <<backend, value, gcs_obj, has_objective, objective_var, cpm_status,
                 objective_value, naux, objcalls, mznvars>>

\* objective(Objectives[j], minimize)
GcsSetObjective(j, minimize) ==
  /\ backend = "gcs" /\ calls < MaxCalls
  /\ \E r \in {GcsObjective(GcsSession, Objectives[j], naux)} :
       /\ SetG(r.G)
       /\ naux' = naux + Cardinality(r.aux)
       /\ value' = [v \in r.aux |-> None] @@ value
       /\ ret' = Ret("objective", r.err, <<>>, r.obj, FALSE, 0, FALSE, FALSE)
       /\ IF r.err = ""
          THEN /\ has_objective' = TRUE
               /\ objective_var' = r.obj
               /\ gcs_obj' = Some([h |-> r.obj[1], minimize |-> minimize])
          ELSE UNCHANGED <<has_objective, objective_var, gcs_obj>>
  /\ calls' = calls + 1
  /\ objcalls' = Append(objcalls, [j |-> j, minimize |-> minimize])
  /\ UNCHANGED <<backend, cpm_status, objective_value, posted, mznvars>>

\* solve that passes over its time limit
TimeLimitIgnored(tl) == FALSE

\* The test of line 70: a time limit is refused
TimeLimitRejected(tl) == tl

\* get_solution_value: the value of a handle in the solution found, None
\* for a variable the solver did not know when it ran
GetSolutionValue(h, sol) ==
  IF h.var > Len(sol) THEN None ELSE Some(HVal(h, sol))

\* solve(time_limit); tl says that a time limit is given
GcsSolve(tl) ==
  /\ backend = "gcs"
  /\ IF TimeLimitRejected(tl)
     THEN /\ ret' = Ret("solve", "NotImplementedError", <<>>, <<>>, FALSE, 0, FALSE, tl)
          /\ UNCHANGED <<varmap, user_vars, value, nvars, ncons, cpm_status, objective_value>>
     ELSE LET sols == NativeBest(NativeSolutions(nvars, ncons), gcs_obj)
          IN IF sols = {}
             THEN /\ cpm_status' = "UNSATISFIABLE"
                  /\ objective_value' = None
                  /\ ret' = Ret("solve", "", <<>>, <<>>, SolveReturn(cpm_status'), 0, TRUE, tl)
                  /\ UNCHANGED <<varmap, user_vars, value, nvars, ncons>>
             ELSE \E sol \in sols, order \in Orders(user_vars \ DOMAIN varmap) :
                    \E r \in {GcsSolverVars(GcsSession, order)} :
                       /\ cpm_status' = "FEASIBLE"
                       /\ SetG(r.G)
                       /\ value' = [v \in DOMAIN value |->
                                      IF v \in user_vars
                                      THEN GetSolutionValue(r.G.vm[v], sol)
                                      ELSE value[v]]
                       /\ objective_value' =
                            IF has_objective THEN GetSolutionValue(objective_var[1], sol)
                            ELSE None
                       /\ ret' = Ret("solve", "", <<>>, <<>>, SolveReturn(cpm_status'), 0, TRUE, tl)
  /\ UNCHANGED <<backend, gcs_obj, has_objective, objective_var, naux, calls, objcalls,
                 posted, mznvars>>


\* ---- CPM_minizinc ----
MznSession == [vm |-> varmap, uv |-> user_vars, model |-> mzn_model]

SetM(M1) ==
  /\ varmap' = M1.vm
  /\ user_vars' = M1.uv
  /\ mzn_model' = M1.model

\* solver_var(v)
MznBind(v) ==
  /\ backend = "mzn" /\ pc = "idle" /\ calls < MaxCalls
  /\ LET r == MznSolverVar(MznSession, v)
     IN /\ SetM(r.M)
        /\ ret' = Ret("solver_var", "", <<v>>, <<r.h>>, FALSE, 0, FALSE, FALSE)
  /\ calls' = calls + 1
  /\ UNCHANGED <<backend, value, gcsvars, mzn_txt_solve, cpm_status, objective_value,
                 naux, objcalls, posted, submitted, pc, nenums, en>>

\* self += Catalogue[i]
MznPost(i) ==
  /\ backend = "mzn" /\ pc = "idle" /\ calls < MaxCalls
  /\ SetM(MznAdd(MznSession, Catalogue[i]))
  /\ posted' = Append(posted, [i |-> i, ok |-> TRUE])
  /\ ret' = Ret("add", "", <<>>, <<>>, FALSE, 0, FALSE, FALSE)
  /\ calls' = calls + 1
  /\ UNCHANGED <<backend, value, gcsvars, mzn_txt_solve, cpm_status, objective_value,
                 naux, objcalls, submitted, pc, nenums, en>>

\* objective(Objectives[j], minimize)
MznSetObjective(j, minimize) ==
  /\ backend = "mzn" /\ pc = "idle" /\ calls < MaxCalls
  /\ LET r == MznObjective(MznSession, Objectives[j], minimize)
     IN /\ SetM(r.M)
        /\ mzn_txt_solve' = r.txt_solve
  /\ ret' = Ret("objective", "", <<>>, <<>>, FALSE, 0, FALSE, FALSE)
  /\ calls' = calls + 1
  /\ objcalls' = Append(objcalls, [j |-> j, minimize |-> minimize])
  /\ UNCHANGED <<backend, value, gcsvars, cpm_status, objective_value, naux, posted,
                 submitted, pc, nenums, en>>

\* What mzn_inst.solve can answer for a program that compiles: a native
\* status and, with it, a solution or none.  A search without time limit is
\* complete; with one it may stop early.
MznResults(program, tl) ==
  LET sols == MznSolutions(program)
      opt == IsOptimisation(program)
      R(st, sol) == [status |-> st, solution |-> sol]
  IN {R("ERROR", None)}
     \cup (IF sols = {} THEN {R("UNSATISFIABLE", None)} ELSE {})
     \cup (IF tl THEN {R("UNKNOWN", None)} ELSE {})
     \cup {R("SATISFIED", Some(s)) : s \in IF opt /\ ~tl THEN {} ELSE sols}
     \cup {R("OPTIMAL_SOLUTION", Some(s)) :
             s \in IF opt THEN {t \in sols : IsOptimal(program, t, sols)} ELSE {}}

\* The reverse mapping over every bound variable, tracked or not
FillValuesOfCache(vm, uv, mznsol) ==
  [v \in DOMAIN value |->
     IF v \in DOMAIN vm /\ vm[v] \in DOMAIN mznsol THEN Some(mznsol[vm[v]]) ELSE value[v]]

\* The value slots after the reverse mapping of lines 183-188 / 243-248
FillValues(vm, uv, mznsol) ==
  [v \in DOMAIN value |->
     IF v \in uv /\ vm[v] \in DOMAIN mznsol THEN Some(mznsol[vm[v]]) ELSE value[v]]

\* solve(time_limit); tl says that a time limit is given
MznSolve(tl) ==
  /\ backend = "mzn" /\ pc = "idle"
  /\ LET program == PreSolve(mzn_model, mzn_txt_solve)
     IN /\ submitted' = program
        /\ IF ~Compiles(program)
           THEN /\ ret' = Ret("solve", "MiniZincError", <<>>, <<>>, FALSE, 0, TRUE, tl)
                /\ UNCHANGED <<varmap, user_vars, mzn_model, value, cpm_status, objective_value>>
           ELSE \E mzn_result \in MznResults(program, tl) :
                  /\ cpm_status' = PostSolveStatus(mzn_result.status)
                  /\ IF PostSolveRaises(mzn_result.status)
                     THEN /\ ret' = [Ret("solve", "Exception", <<>>, <<>>, FALSE, 0, TRUE, tl)
                                       EXCEPT !.status = mzn_result.status]
                          /\ UNCHANGED <<varmap, user_vars, mzn_model, value, objective_value>>
                     ELSE IF ~SolveReturn(cpm_status')
                     THEN /\ objective_value' = None
                          /\ ret' = [Ret("solve", "", <<>>, <<>>, FALSE, 0, TRUE, tl)
                                       EXCEPT !.status = mzn_result.status]
                          /\ UNCHANGED <<varmap, user_vars, mzn_model, value>>
                     ELSE \E order \in Orders(user_vars \ DOMAIN varmap) :
                            LET M1 == MznBindAtoms(MznSession, order)
                                mznsol == mzn_result.solution[1]
                            IN /\ SetM(M1)
                               /\ value' = FillValues(M1.vm, user_vars, mznsol)
                               /\ objective_value' =
                                    IF IsOptimisation(program)
                                    THEN Some(Objective(program, mznsol)) ELSE None
                               /\ ret' = [Ret("solve", "", <<>>, <<>>, TRUE, 0, TRUE, tl)
                                            EXCEPT !.status = mzn_result.status]
  /\ UNCHANGED <<backend, gcsvars, mzn_txt_solve, naux, calls, objcalls, posted, pc,
                 nenums, en>>

\* solveAll(display, solution_limit) up to the first request for a solution
MznSolveAllStart(display, limit) ==
  /\ backend = "mzn" /\ pc = "idle" /\ nenums < MaxEnums
  /\ LET program == PreSolve(mzn_model, mzn_txt_solve)
     IN /\ submitted' = program
        /\ Compiles(program) => Cardinality(MznSolutions(program)) <= MaxEnumSolutions
        /\ IF ~Compiles(program)
           THEN /\ ret' = Ret("solveAll", "MiniZincError", <<>>, <<>>, FALSE, 0, TRUE, FALSE)
                /\ UNCHANGED <<pc, en>>
           ELSE /\ en' = [inst |-> program, sols |-> MznSolutions(program),
                          display |-> display, limit |-> limit, count |-> 0,
                          yielded |-> {}, last |-> None]
                /\ pc' = "loop"
                /\ ret' = [Ret("solveAll", "", <<>>, <<>>, FALSE, 0, TRUE, FALSE)
                             EXCEPT !.display = display, !.limit = limit,
                                    !.nsols = Cardinality(MznSolutions(program))]
  /\ nenums' = nenums + 1
  /\ UNCHANGED <<backend, varmap, user_vars, value, gcsvars, mzn_model, mzn_txt_solve,
                 cpm_status, objective_value, naux, calls, objcalls, posted>>

\* The solutions the running instance may report next: one not reported yet;
\* for an optimisation program one better than the last
NextSolutions ==
  {s \in en.sols \ en.yielded :
     IsOptimisation(en.inst) /\ en.last # None => Better(en.inst, s, en.last[1])}

\* One turn of the loop up to the count: lines 233-259
MznYield ==
  /\ pc = "loop"
  /\ \E mznsol \in NextSolutions :
       /\ en' = [en EXCEPT !.yielded = @ \cup {mznsol}, !.last = Some(mznsol),
                           !.count = @ + 1]
       /\ IF en.display
          THEN \E order \in Orders(user_vars \ DOMAIN varmap) :
                 LET M1 == MznBindAtoms(MznSession, order)
                 IN /\ SetM(M1)
                    /\ value' = FillValues(M1.vm, user_vars, mznsol)
                    /\ ret' = [ret EXCEPT !.shown = Append(@, [v \in user_vars |-> value'[v]])]
          ELSE UNCHANGED <<varmap, user_vars, mzn_model, value, ret>>
  /\ pc' = "counted"
  /\ UNCHANGED <<backend, gcsvars, mzn_txt_solve, cpm_status, objective_value, naux, calls,
                 objcalls, posted, submitted, nenums>>

\* The rest of the turn: stop at the limit, or post the nogood and go on
MznContinue ==
  /\ pc = "counted"
  /\ IF LimitReached(en.count, en.limit)
     THEN /\ cpm_status' = PostSolveStatus("SATISFIED")
          /\ ret' = [ret EXCEPT !.n = en.count, !.status = "SATISFIED"]
          /\ pc' = "idle"
          /\ en' = NoEnum
          /\ UNCHANGED <<varmap, user_vars, mzn_model>>
     ELSE /\ SetM(MznAdd(MznSession, NoGood(user_vars)))
          /\ pc' = "loop"
          /\ UNCHANGED <<cpm_status, ret, en>>
  /\ UNCHANGED <<backend, value, gcsvars, mzn_txt_solve, objective_value, naux, calls,
                 objcalls, posted, submitted, nenums>>

\* The instance has no further solution: the result without solution ends
\* the loop, and its status is translated
MznFinal ==
  /\ pc = "loop"
  /\ NextSolutions = {}
  /\ LET mzn_status == IF en.sols = {} THEN "UNSATISFIABLE"
                       ELSE IF IsOptimisation(en.inst) THEN "OPTIMAL_SOLUTION"
                       ELSE "ALL_SOLUTIONS"
     IN /\ cpm_status' = PostSolveStatus(mzn_status)
        /\ ret' = [ret EXCEPT !.n = en.count, !.status = mzn_status]
  /\ pc' = "idle"
  /\ en' = NoEnum
  /\ UNCHANGED <<backend, varmap, user_vars, value, gcsvars, mzn_model, mzn_txt_solve,
                 objective_value, naux, calls, objcalls, posted, submitted, nenums>>

Limits == {None} \cup {Some(k) : k \in 0..MaxLimit}

Next ==
  \/ \E v \in BindTargets : GcsBind(v)
  \/ \E i \in 1..Len(Catalogue) : GcsPost(i)
  \/ \E j \in 1..Len(Objectives), minimize \in BOOLEAN : GcsSetObjective(j, minimize)
  \/ \E tl \in BOOLEAN : GcsSolve(tl)
  \/ \E v \in BindTargets : MznBind(v)
  \/ \E i \in 1..Len(Catalogue) : MznPost(i)
  \/ \E j \in 1..Len(Objectives), minimize \in BOOLEAN : MznSetObjective(j, minimize)
  \/ \E tl \in BOOLEAN : MznSolve(tl)
  \/ \E display \in BOOLEAN, limit \in Limits : MznSolveAllStart(display, limit)
  \/ MznYield
  \/ MznContinue
  \/ MznFinal

Spec == Init /\ [][Next]_vars


\* ------------------------------------------------------------------------
\* Properties
\* ------------------------------------------------------------------------
IsPrefix(s, t) == Len(s) <= Len(t) /\ SubSeq(t, 1, Len(s)) = s
Last(s) == s[Len(s)]

\* A step that is a direct call solver_var(v)
BindStep(v) == calls' = calls + 1 /\ ret'.op = "solver_var" /\ ret'.v = <<v>>

\* C1: binding is idempotent in both backends.  In every step of a session
\* a cached handle stays what it is; a call solver_var(v) for a variable v
\* that is cached returns the cached handle and creates no native variable
\* and no declaration line; and the session holds exactly one native
\* variable (gcs) or declaration line (mzn) per cached variable.
BindingIdempotent ==
  [][/\ \A v \in DOMAIN varmap : v \in DOMAIN varmap' /\ varmap'[v] = varmap[v]
     /\ \A v \in DOMAIN varmap :
          BindStep(v) => /\ ret'.h = <<varmap[v]>>
                         /\ ret'.raised = ""
                         /\ nvars' = nvars
                         /\ mzn_model' = mzn_model
     /\ backend = "gcs" => Len(nvars') = Cardinality(DOMAIN varmap')
     /\ backend = "mzn" => Len(Declarations(mzn_model')) = Cardinality(DOMAIN varmap')
    ]_vars

\* C1 witness: solver_var(x) has been called on a session that had x bound
BindingIdempotentWitness ==
  /\ calls = 2
  /\ ret.op = "solver_var" /\ ret.v = <<x>>
  /\ DOMAIN varmap = {x}
  /\ ret.h = <<varmap[x]>>

\* The value of a posted constraint under the value slots
Holds(e) ==
  /\ \A v \in get_variables(e) : value[v] # None
  /\ Value(e, [v \in get_variables(e) |-> value[v][1]]) # 0

PostedOk == {Shapes[posted[k].i] : k \in {n \in 1..Len(posted) : posted[n].ok}}

\* C2: solution validity.  When solve has returned true, every constraint
\* that was posted evaluates to true under the value slots.
SolutionValid ==
  (ret.op = "solve" /\ ret.ok) => \A e \in PostedOk : Holds(e)

\* C2 witness: solve returned true on a session with two posted constraints,
\* one of them over a negation view
SolutionValidWitness ==
  /\ ret.op = "solve" /\ ret.ok
  /\ Len(posted) = 2 /\ posted[1].ok /\ posted[2].ok
  /\ posted[1].i = 9 /\ posted[2].i = 5


\* solveAll(display, solution_limit) has returned
SolveAllReturned == backend = "mzn" /\ ret.op = "solveAll" /\ pc = "idle" /\ ret.raised = ""

\* The assignments of the tracked variables that satisfy the program solveAll
\* was called on
SatisfyingAssignments ==
  {[v \in user_vars |-> Some(env[varmap[v]])] : env \in MznSolutions(submitted)}

\* C3: enumeration is exhaustive and distinct.  When solveAll with a display
\* callback and no solution limit has returned, the callback has seen every
\* satisfying assignment of the tracked variables exactly once, and the count
\* returned is their number.
EnumerationExhaustive ==
  (SolveAllReturned /\ ret.display /\ ret.limit = None) =>
     /\ \A i, j \in 1..Len(ret.shown) : i # j => ret.shown[i] # ret.shown[j]
     /\ {ret.shown[i] : i \in 1..Len(ret.shown)} = SatisfyingAssignments
     /\ ret.n = Cardinality(SatisfyingAssignments)

\* C4: enumeration limit.  When solveAll with a display callback and limit k
\* has returned on a program with at least k solutions, the callback has run
\* exactly k times and k is returned.
EnumerationLimit ==
  (SolveAllReturned /\ ret.display /\ ret.limit # None /\ ret.nsols >= ret.limit[1]) =>
     /\ Len(ret.shown) = ret.limit[1]
     /\ ret.n = ret.limit[1]

\* C5: no negation view in the binding cache.  No key of the cache is a
\* view, and no native variable or declaration carries the name of a view.
NoViewBound ==
  /\ \A v \in DOMAIN varmap : ~IsNegBoolView(v)
  /\ \A i \in 1..Len(nvars) : nvars[i].name[1] # "~"
  /\ \A i \in 1..Len(mzn_model) : IsVarLine(mzn_model[i]) => mzn_model[i].name[1] # "~"

\* A step of a minizinc session that hands a program to the compiler: solve,
\* or the start of solveAll
SubmitStep == backend = "mzn" /\ pc = "idle" /\ calls' = calls

\* The solve statement of the latest objective call, "solve satisfy;" without one
ExpectedSolve ==
  IF objcalls = <<>> THEN SolveSatisfy
  ELSE SolveOptimize(Last(objcalls).minimize,
                     ConvertExpression(Objectives[Last(objcalls).j], varmap))

\* C6: every program handed to the compiler has exactly one solve statement,
\* it is the last line, and it is "solve satisfy;" when objective was never
\* called and else the statement of the latest objective call.
OneSolveStatementLast ==
  [][SubmitStep =>
       /\ Len(SelectSeq(submitted', IsSolveLine)) = 1
       /\ IsSolveLine(Last(submitted'))
       /\ Last(submitted') = ExpectedSolve
    ]_vars

\* C6 witness: solve was called after two different objective calls and a
\* maximize statement was submitted
OneSolveStatementLastWitness ==
  /\ backend = "mzn" /\ ret.op = "solve"
  /\ Len(objcalls) = 2 /\ objcalls[1] # objcalls[2]
  /\ submitted # <<>> /\ Last(submitted).dir = "maximize"

\* The handle the latest objective call made: of the variable itself, or of
\* the auxiliary variable the call created
LastObjectiveHandle ==
  LET expr == Objectives[Last(objcalls).j]
  IN IF IsNumVarImpl(expr) THEN varmap[expr] ELSE varmap[AuxVar(naux - 1, expr)]

\* The stored objective is that of the latest objective call
ObjectiveRecord ==
  objcalls # <<>> =>
    /\ backend = "gcs" =>
         /\ has_objective
         /\ objective_var = Some(LastObjectiveHandle)
         /\ gcs_obj = Some([h |-> LastObjectiveHandle, minimize |-> Last(objcalls).minimize])
    /\ backend = "mzn" => mzn_txt_solve = ExpectedSolve

\* C7: objective overwrites and retracts nothing.  After every step the one
\* stored objective is that of the latest objective call, and every native
\* variable, native constraint and program line present before the step is
\* still present, in place, after it.
ObjectiveOverwrites ==
  [][/\ ObjectiveRecord'
     /\ IsPrefix(nvars, nvars')
     /\ IsPrefix(ncons, ncons')
     /\ IsPrefix(mzn_model, mzn_model')
    ]_vars

\* C7 witness: two objective calls, each with its own auxiliary variable and
\* defining constraint, both constraints still posted
ObjectiveOverwritesWitness ==
  /\ backend = "gcs" /\ Len(objcalls) = 2 /\ naux = 2
  /\ Len(ncons) = 2
  /\ objcalls[1].minimize /\ ~objcalls[2].minimize

\* C8: the status table of the minizinc backend.  After solve or solveAll
\* the exit status is the one the table gives for the native status; only
\* ERROR raises; solve returns true exactly for FEASIBLE and OPTIMAL.
StatusTable ==
  (backend = "mzn" /\ pc = "idle" /\ ret.status # "") =>
     /\ ret.status \in {"SATISFIED", "ALL_SOLUTIONS"} => cpm_status = "FEASIBLE"
     /\ ret.status = "OPTIMAL_SOLUTION" => cpm_status = "OPTIMAL"
     /\ ret.status = "UNSATISFIABLE" => cpm_status = "UNSATISFIABLE"
     /\ ret.status \in {"UNKNOWN", "ERROR"} => cpm_status = "ERROR"
     /\ ret.raised # "" <=> ret.status = "ERROR"
     /\ ret.op = "solve" => (ret.ok <=> cpm_status \in {"FEASIBLE", "OPTIMAL"})

\* C8 witness: the native status UNKNOWN was returned as ERROR, not raised
StatusTableWitness ==
  /\ backend = "mzn" /\ ret.op = "solve" /\ ret.status = "UNKNOWN"
  /\ cpm_status = "ERROR" /\ ret.raised = "" /\ ~ret.ok

\* C9: the gcs backend refuses a time limit.  A solve call with a time limit
\* raises, does not reach the native solve, and leaves the session as it was.
TimeLimitRefused ==
  [][(backend = "gcs" /\ calls' = calls /\ ret'.op = "solve" /\ ret'.tl) =>
       /\ ret'.raised = "NotImplementedError"
       /\ ~ret'.native
       /\ UNCHANGED <<cpm_status, value, objective_value, varmap, user_vars, nvars, ncons,
                      gcs_obj, has_objective, objective_var, posted>>
    ]_vars

\* C9 witness: a solve with a time limit was refused on a session that had
\* been solved before
TimeLimitRefusedWitness ==
  /\ backend = "gcs" /\ ret.op = "solve" /\ ret.tl
  /\ ret.raised = "NotImplementedError"
  /\ cpm_status = "FEASIBLE" /\ Len(ncons) = 2 /\ value[x] # None

\* C10: a solve (without time limit) that returns true while an objective is
\* set reports OPTIMAL and records the value of the objective; in Scenario E
\* (minimize sum([a, b]), nothing posted) that value is 0.
ObjectiveSolveOptimal ==
  (ret.op = "solve" /\ ret.ok /\ ~ret.tl /\ objcalls # <<>>) =>
     /\ cpm_status = "OPTIMAL"
     /\ LET e == Objectives[Last(objcalls).j]
        IN /\ \A v \in get_variables(e) : value[v] # None
           /\ objective_value = Some(Value(e, [v \in get_variables(e) |-> value[v][1]]))
     /\ (posted = <<>> /\ Last(objcalls) = [j |-> 2, minimize |-> TRUE])
           => objective_value = Some(0)

\* ------------------------------------------------------------------------
\* The dispatcher of the API backend on its own: a session of
\* CPM_glasgowconstraintsolver that is given constraints of every shape
\* ------------------------------------------------------------------------
InitLower == Init /\ backend = "gcs"

NextLower ==
  \/ \E v \in BindTargets : GcsBind(v)
  \/ \E i \in 1..Len(Shapes) : GcsPost(i)

SpecLower == InitLower /\ [][NextLower]_vars

\* A step that is the call self += Shapes[i]
PostStep(i) == Len(posted') = Len(posted) + 1 /\ Last(posted').i = i

\* The handle solver_var gives for an atom once its variable is in the cache vm
HandleOf(vm, v) ==
  IF is_num(v) THEN create_integer_constant(v.lb)
  ELSE IF IsNegBoolView(v) THEN add_constant(negate(vm[Bv(v)]), 1)
  ELSE vm[v]

HandlesOf(vm, s) == [i \in 1..Len(s) |-> HandleOf(vm, s[i])]

\* The shapes the branches of _post_constraint test for before the
\* decomposition of line 300
HasDirectRule(e) ==
  \/ IsBoolVarImpl(e)
  \/ e.tag = "op" /\ e.name \in {"and", "or", "->"}
  \/ e.tag = "cmp"
  \/ e.tag = "glob" /\ e.name = "alldifferent"

IsImplication(e) == e.tag = "op" /\ e.name = "->"
IsTopLevelXor(e) == e.tag = "op" /\ e.name = "xor"

\* C11: the dispatcher never silently drops a constraint.  A posted
\* constraint without a direct rule that can be decomposed (a top-level xor,
\* a global constraint with a decomposition) is posted through its pieces
\* and the call returns; a call that is not an implication fails with
\* NotImplementedError only when no rule matches and there is no
\* decomposition; and a call that returns has emitted at least one native
\* constraint.
NeverSilentlyDropped ==
  [][\A i \in 1..Len(Shapes) :
       PostStep(i) =>
         /\ ret'.raised = "" => Len(ncons') > Len(ncons)
         /\ (IsTopLevelXor(Shapes[i]) \/ HasDecomposition(Shapes[i])) =>
              /\ ret'.raised = ""
              /\ Len(ncons') > Len(ncons)
         /\ (ret'.raised = "NotImplementedError" /\ ~IsImplication(Shapes[i])) =>
              /\ ~HasDirectRule(Shapes[i])
              /\ ~IsTopLevelXor(Shapes[i])
              /\ ~HasDecomposition(Shapes[i])
    ]_vars

\* C12: posting a bare Boolean literal on the API backend succeeds.  The
\* call self += lit, for lit a Boolean variable or its negation view, emits
\* exactly one native constraint, the unit clause post_or([h(lit)]), and
\* returns without raising.
BareLiteralPosted ==
  [][\A i \in 1..Len(Shapes) :
       (PostStep(i) /\ IsBoolVarImpl(Shapes[i])) =>
         /\ ret'.raised = ""
         /\ Bv(Shapes[i]) \in DOMAIN varmap' \/ Shapes[i] \in DOMAIN varmap'
         /\ ncons' = Append(ncons, post_or(<<HandleOf(varmap', Shapes[i])>>))
    ]_vars

IsAtom(e) == e.tag \in {"num", "var", "neg"}

\* A Comparison whose sides are both plain variables or constants
IsPlainComparison(e) == e.tag = "cmp" /\ IsAtom(e.args[1]) /\ IsAtom(e.args[2])

\* The direct primitive of rule 4 for the comparison hl <n> hr
DirectComparison(n, hl, hr) ==
  CASE n = "==" -> post_equals(hl, hr)
    [] n = "!=" -> post_not_equals(hl, hr)
    [] n = "<=" -> post_compare_less(hl, hr, TRUE)
    [] n = "<"  -> post_compare_less(hl, hr, FALSE)
    [] n = ">=" -> post_compare_less(hr, hl, TRUE)
    [] n = ">"  -> post_compare_less(hr, hl, FALSE)

\* C13: for a Comparison whose sides are both plain variables or constants
\* the call self += (l <op> r) on the API backend does not fail and emits
\* exactly one native constraint: equals(h(l), h(r)) for ==,
\* not_equals(h(l), h(r)) for !=, compare_less(h(l), h(r), or_equal) for <=
\* and <, and compare_less(h(r), h(l), or_equal) for >= and >.
PlainComparisonDirect ==
  [][\A i \in 1..Len(Shapes) :
       (PostStep(i) /\ IsPlainComparison(Shapes[i])) =>
         /\ ret'.raised = ""
         /\ get_variables(Shapes[i]) \subseteq DOMAIN varmap'
         /\ ncons' = Append(ncons, DirectComparison(Shapes[i].name,
                                                    HandleOf(varmap', Shapes[i].args[1]),
                                                    HandleOf(varmap', Shapes[i].args[2])))
    ]_vars

\* The consequents the reification handler serves, lines 218-247
IsServedConsequent(c) ==
  \/ IsBoolVarImpl(c)
  \/ c.tag = "op" /\ c.name \in {"and", "or", "->", "xor"}
  \/ c.tag = "cmp" /\ c.name \in {"==", "<=", "<", ">=", ">"}

\* The primitive for bool_lhs -> bool_expr, its handles read from the cache vm
ReifiedPrimitive(vm, bool_lhs, bool_expr) ==
  LET rb == HandleOf(vm, bool_lhs)
      hl == HandleOf(vm, bool_expr.args[1])
      hr == HandleOf(vm, bool_expr.args[2])
  IN IF IsBoolVarImpl(bool_expr) THEN post_implies(<<rb, HandleOf(vm, bool_expr)>>)
     ELSE CASE bool_expr.name = "and" -> post_and_if(HandlesOf(vm, bool_expr.args), rb)
            [] bool_expr.name = "or" -> post_or_if(HandlesOf(vm, bool_expr.args), rb)
            [] bool_expr.name = "->" -> post_implies_if(HandlesOf(vm, bool_expr.args), rb)
            [] bool_expr.name = "xor" -> post_xor_if(HandlesOf(vm, bool_expr.args), rb)
            [] bool_expr.name = "==" -> post_equals_if(hl, hr, rb)
            [] bool_expr.name = "<=" -> post_compare_less_if(hl, hr, rb, TRUE)
            [] bool_expr.name = "<" -> post_compare_less_if(hl, hr, rb, FALSE)
            [] bool_expr.name = ">=" -> post_compare_less_if(hr, hl, rb, TRUE)
            [] bool_expr.name = ">" -> post_compare_less_if(hr, hl, rb, FALSE)

\* C14: the dispatch of the reification handler.  The call self += (b -> c)
\* with b a Boolean variable emits exactly one native constraint:
\* implies(h(b), h(c)) for c a Boolean variable; the and/or/implies/xor "_if"
\* primitive over the handles of c's arguments, reified by h(b), for c a
\* connective; equals_if(h(l), h(r), h(b)) for l == r;
\* compare_less_if(h(l), h(r), h(b), or_equal) for <= and <; and
\* compare_less_if(h(r), h(l), h(b), or_equal) for >= and >.  With any other
\* consequent (l != r among them) or an antecedent that is not a Boolean
\* variable the call raises and emits no native constraint.
ReificationDispatch ==
  [][\A i \in 1..Len(Shapes) :
       (PostStep(i) /\ IsImplication(Shapes[i])) =>
         IF IsBoolVarImpl(Shapes[i].args[1]) /\ IsServedConsequent(Shapes[i].args[2])
         THEN /\ ret'.raised = ""
              /\ get_variables(Shapes[i]) \subseteq DOMAIN varmap'
              /\ ncons' = Append(ncons, ReifiedPrimitive(varmap', Shapes[i].args[1],
                                                         Shapes[i].args[2]))
         ELSE /\ ret'.raised # ""
              /\ ncons' = ncons
    ]_vars

\* C14 witness: x -> (a > w) has been posted as the reified comparison
\* w < a, and before it the call for x -> (a != b) raised and emitted nothing
ReificationDispatchWitness ==
  /\ Len(posted) = 2
  /\ Shapes[posted[1].i] = Operator("->", <<x, Comparison("!=", a, b)>>)
  /\ ~posted[1].ok
  /\ Shapes[posted[2].i] = Operator("->", <<x, Comparison(">", a, w)>>)
  /\ ret.op = "add" /\ ret.raised = ""
  /\ ncons = <<post_compare_less_if(varmap[w], varmap[a], varmap[x], FALSE)>>

\* sum(x1..xn) == r with n > 2, or wsum([w1..wn], [x1..xn]) == r
IsLinearEquation(e) ==
  /\ e.tag = "cmp" /\ e.name = "=="
  /\ \/ e.args[1].tag = "op" /\ e.args[1].name = "sum" /\ Len(e.args[1].args) > 2
     \/ e.args[1].tag = "wsum"

\* The values the tracked variables take under an assignment of the native
\* variables, through the cache vm
ValuesUnder(vm, asg) == [v \in DOMAIN vm |-> HVal(vm[v], asg)]

\* C15: move-to-one-side encoding.  The call self += (sum(x1..xn) == r)
\* with n > 2, or self += (wsum([w1..wn], [x1..xn]) == r), posts exactly one
\* linear-equality constraint with n + 1 terms, n + 1 coefficients and the
\* constant 0, and an assignment of the native variables over their bounded
\* domains satisfies it exactly when it satisfies the equation.
MoveToOneSide ==
  [][\A i \in 1..Len(Shapes) :
       (PostStep(i) /\ IsLinearEquation(Shapes[i])) =>
         /\ ret'.raised = ""
         /\ get_variables(Shapes[i]) \subseteq DOMAIN varmap'
         /\ Len(ncons') = Len(ncons) + 1
         /\ SubSeq(ncons', 1, Len(ncons)) = ncons
         /\ Last(ncons').op = "linear_equality"
         /\ Last(ncons').reif = <<>>
         /\ Len(Last(ncons').args) = Len(Shapes[i].args[1].args) + 1
         /\ Len(Last(ncons').coefs) = Len(Shapes[i].args[1].args) + 2
         /\ Last(Last(ncons').coefs) = 0
         /\ \A asg \in Assignments(nvars') :
              NativeHolds(Last(ncons'), asg) <=>
                Value(Shapes[i], ValuesUnder(varmap', asg)) # 0
    ]_vars

\* C15 witness: 2*x - w == a has been posted as 2*x - w + 1*(-a) = 0
MoveToOneSideWitness ==
  /\ posted # <<>>
  /\ Shapes[Last(posted).i] = Comparison("==", WSum(<<2, -1>>, <<x, w>>), a)
  /\ ret.op = "add" /\ ret.raised = ""
  /\ {x, w, a} \subseteq DOMAIN varmap
  /\ Last(ncons) = post_linear_equality(<<varmap[x], varmap[w], negate(varmap[a])>>,
                                        <<2, -1, 1>>, 0)

\* ------------------------------------------------------------------------
\* Enumeration, names and value slots
\* ------------------------------------------------------------------------
\* A step of _solveAll that posts the nogood of line 264
NogoodStep == pc = "counted" /\ pc' = "loop"

\* The values a solution of the program gives the tracked variables
Reported(vm, uv, mznsol) ==
  [v \in {u \in uv : u \in DOMAIN vm /\ vm[u] \in DOMAIN mznsol} |-> mznsol[vm[v]]]

\* C16: enumeration ordering and nogood exactness.  In every turn of the
\* enumeration loop the callback has run on the solution just reported
\* before the nogood is posted, and the nogood is one constraint line that
\* is false exactly for the assignments that give every tracked variable its
\* value in that solution; the same line is posted when no display is given.
NogoodExact ==
  [][NogoodStep =>
       /\ en.display =>
            /\ ret.shown # <<>>
            /\ \A v \in DOMAIN Reported(varmap, user_vars, en.last[1]) :
                 Last(ret.shown)[v] = Some(Reported(varmap, user_vars, en.last[1])[v])
       /\ Len(mzn_model') > Len(mzn_model)
       /\ IsConstraintLine(Last(mzn_model'))
       /\ Len(SelectSeq(mzn_model', IsConstraintLine))
            = Len(SelectSeq(mzn_model, IsConstraintLine)) + 1
       /\ \A env \in Envs(Declarations(mzn_model')) :
            Eval(Last(mzn_model').expr, env) = 0 <=>
              Reported(varmap', user_vars, env) = Reported(varmap', user_vars, en.last[1])
    ]_vars

\* C17: handle injectivity in the DSL backend.  In every state of a
\* CPM_minizinc session two distinct variables of the binding cache have
\* distinct generated names, and no name is declared twice in the program,
\* also for variable names that differ only in characters the sanitization
\* of line 288 touches.
HandlesInjective ==
  backend = "mzn" =>
    /\ \A u, v \in DOMAIN varmap : u # v => varmap[u] # varmap[v]
    /\ \A i, j \in 1..Len(Declarations(mzn_model)) :
         i # j => Declarations(mzn_model)[i].name # Declarations(mzn_model)[j].name

\* The constraint lines of a program
ConstraintLines(program) == SelectSeq(program, IsConstraintLine)

\* The assignments of the tracked variables a solve on the session as it is
\* now can report
SolvableAssignments ==
  {[v \in user_vars |-> Some(env[varmap[v]])] :
     env \in MznSolutions(PreSolve(mzn_model, mzn_txt_solve))}

\* C18: the nogoods of an enumeration stay in the session.  No step removes
\* a line of the program; when solveAll has reported n >= 1 solutions and
\* ended because the instance had no further solution, the program holds
\* exactly n constraint lines more than the one it was called on and a later
\* solve finds none of the reported assignments; when it ended at the limit,
\* the program holds exactly n - 1 more.
NogoodsPermanent ==
  [][/\ IsPrefix(mzn_model, mzn_model')
     /\ (SolveAllReturned' /\ ~SolveAllReturned /\ ret'.n >= 1) =>
          IF ret'.status = "SATISFIED"
          THEN Len(ConstraintLines(mzn_model'))
                 = Len(ConstraintLines(submitted')) + ret'.n - 1
          ELSE /\ Len(ConstraintLines(mzn_model'))
                    = Len(ConstraintLines(submitted')) + ret'.n
               /\ \A i \in 1..Len(ret'.shown) : ret'.shown[i] \notin SolvableAssignments'
    ]_vars

\* A step that is a call of solve which returned
SolveReturned == ret'.op = "solve" /\ ret'.raised = ""

\* The value slots of the tracked variables hold what the backend reports
\* for one solution of what it was given
BackendReported ==
  IF backend = "gcs"
  THEN \E sol \in Assignments(nvars) :
         /\ \A v \in user_vars' : value'[v] = GetSolutionValue(varmap'[v], sol)
         /\ \A i \in 1..Len(ncons) : NativeHolds(ncons[i], sol)
  ELSE \E env \in Envs(Declarations(submitted')) :
         /\ \A v \in user_vars' : /\ varmap'[v] \in DOMAIN env
                                  /\ value'[v] = Some(env[varmap'[v]])
         /\ \A i \in 1..Len(submitted') :
              IsConstraintLine(submitted'[i]) => Eval(submitted'[i].expr, env) # 0

\* C19: value slots are written only on success.  When solve returns false,
\* no value slot is modified and objective_value_ is None; when solve
\* returns true, the slot of every tracked variable holds the value the
\* backend reports for it in one solution, and the slot of every variable
\* the session does not track is left as it was.
ValuesWrittenOnSuccess ==
  [][SolveReturned =>
       IF ~ret'.ok
       THEN /\ value' = value
            /\ objective_value' = None
       ELSE /\ \A v \in DOMAIN value \ user_vars' : value'[v] = value[v]
            /\ DOMAIN value' = DOMAIN value
            /\ BackendReported
    ]_vars

\* C19 witness: solve has returned false on a session whose variables hold
\* the values of an earlier successful solve
ValuesWrittenOnSuccessWitness ==
  /\ ret.op = "solve" /\ ret.raised = "" /\ ~ret.ok
  /\ cpm_status = "UNSATISFIABLE"
  /\ user_vars # {}
  /\ \A v \in user_vars : value[v] # None
  /\ objective_value = None

\* The identifiers that occur in the text of an expression
RECURSIVE Identifiers(_)
Identifiers(n) ==
  IF n.m = "id" THEN {n.s}
  ELSE UNION {Identifiers(n.k[i]) : i \in 1..Len(n.k)}

\* The lines of a program that declare the given name
DeclarationsOf(program, name) ==
  {j \in 1..Len(program) : IsVarLine(program[j]) /\ program[j].name = name}

\* Every name used in a constraint line or in the solve statement is
\* declared by exactly one line, and that line comes before the use
DeclaredBeforeUse(program) ==
  \A k \in 1..Len(program) :
    (IsConstraintLine(program[k]) \/ IsSolveLine(program[k])) =>
      \A name \in Identifiers(program[k].expr) :
        /\ Cardinality(DeclarationsOf(program, name)) = 1
        /\ \E j \in DeclarationsOf(program, name) : j < k

\* C20: declaration before use in the DSL backend.  Every program handed
\* to the compiler by solve or solveAll starts with the preamble that
\* includes the globals library, and every name in one of its constraint
\* lines or in its solve statement has exactly one declaration line, placed
\* before the first line that uses the name; and every call self += c with
\* one constraint c appends exactly one constraint line.
DeclarationBeforeUse ==
  [][/\ SubmitStep =>
          /\ submitted' # <<>>
          /\ Head(submitted') = Preamble
          /\ DeclaredBeforeUse(submitted')
     /\ (backend = "mzn" /\ Len(posted') = Len(posted) + 1) =>
          Len(ConstraintLines(mzn_model')) = Len(ConstraintLines(mzn_model)) + 1
    ]_vars

====
